---- MODULE Spec2Model ----
(***************************************************************************)
(* DAA Mother Server (server.js): the SQLite conversation log, the POST    *)
(* /api/chat pipeline and the GET /api/models catalog, as a state machine. *)
(*                                                                         *)
(* The server runs on a single-threaded event loop.  Every action below    *)
(* is one run-to-completion segment of the async handler (from one await   *)
(* to the next), or one step of the SQLite worker executing a statement    *)
(* the handler has issued.  Text is modelled as a sequence of one-         *)
(* character strings so that toLowerCase(), includes() and += are          *)
(* computed, not assumed.                                                  *)
(***************************************************************************)
EXTENDS Integers, Sequences, FiniteSets, TLC

(***************************************************************************)
(* Bounds of the model.                                                    *)
(***************************************************************************)
MaxFragments == 2    \* fragments one backend stream emits at most
MaxStored == 151     \* rows already in the table when SpecWindow starts
MaxListing == 2      \* models one listing source returns at most

(***************************************************************************)
(* Program constants.                                                      *)
(***************************************************************************)
LimitDefault == 60   \* getGlobalHistoryFromDB: limit when fetchMore is false
LimitMore == 150     \* getGlobalHistoryFromDB: limit when fetchMore is true

Null == "null"       \* null / undefined / SQL NULL where a string is expected
NullText == <<"null">>   \* the same where a text (sequence of characters) is expected
\* Two /api/chat requests, numbered as they arrive; they may overlap.
Requests == {1, 2}

Min(a, b) == IF a < b THEN a ELSE b

(***************************************************************************)
(* Text.                                                                   *)
(***************************************************************************)
\* String.prototype.toLowerCase on the characters the inputs use.
LowerChar(c) ==
    CASE c = "A" -> "a" [] c = "D" -> "d" [] c = "E" -> "e" [] c = "H" -> "h"
      [] c = "I" -> "i" [] c = "M" -> "m" [] c = "N" -> "n" [] c = "R" -> "r"
      [] c = "S" -> "s" [] c = "U" -> "u" [] OTHER -> c

toLowerCase(s) == [i \in 1..Len(s) |-> LowerChar(s[i])]

\* String.prototype.includes: k occurs in s as a contiguous substring.
includes(s, k) ==
    \E i \in 1..(Len(s) - Len(k) + 1) : SubSeq(s, i, i + Len(k) - 1) = k

\* The recall keywords of the chat route.
KwSummera == <<"s","u","m","m","e","r","a">>
KwSammanfatta == <<"s","a","m","m","a","n","f","a","t","t","a">>
KwMinnsDu == <<"m","i","n","n","s"," ","d","u">>

\* The family name the dispatch looks for, and the default model.
Gemini == <<"g","e","m","i","n","i">>
DefaultModel == <<"g","e","m","i","n","i","-","1",".","5","-","f","l","a","s","h">>

\* The fixed marker the catch block puts in front of the error message.
NovaError == <<"N","o","v","a"," ","E","r","r","o","r",":"," ">>

(***************************************************************************)
(* Inputs: the request bodies a client may post.                           *)
(***************************************************************************)
TxtHej == <<"H","e","j">>
TxtSummera == <<"S","U","M","M","E","R","A"," ","d","e","t">>
Jpeg == "base64jpeg"

MsgHej == [role |-> "user", content |-> TxtHej, image |-> Null]
MsgSummera == [role |-> "user", content |-> TxtSummera, image |-> Jpeg]

\* messages when it is an array: empty, or a list whose last element is used.
MessageLists == {<<>>, <<MsgHej>>, <<MsgHej, MsgSummera>>}

ModelLlama == <<"l","l","a","m","a","3">>
ModelGeminiPro == <<"g","e","m","i","n","i","-","p","r","o">>
ModelGpt == <<"g","p","t","-","4">>
\* model: absent, a cloud id, a model the local backend has, an id nobody has.
ModelIds == {NullText, ModelGeminiPro, ModelLlama, ModelGpt}
\* The models the local backend serves (what /api/tags would list).
LocalModels == {ModelLlama}

\* req.body: hasMessages is FALSE when the messages field is missing; model
\* may also be the empty string.
Bodies ==
    [hasMessages : {TRUE}, messages : MessageLists \ {<<>>}, model : ModelIds]
      \cup [hasMessages : BOOLEAN, messages : {<<>>}, model : {NullText}]
      \cup [hasMessages : {TRUE}, messages : {<<MsgHej>>}, model : {<<>>}]

\* What the backends can answer with.
TxtHel == <<"H","e","l">>
TxtLo == <<"l","o">>
\* The k-th fragment a stream emits: "Hel", "lo", "Hel", ...
Fragment(k) == IF k % 2 = 1 THEN TxtHel ELSE TxtLo
\* The complete texts the batch backend returns.
AiTexts == {TxtHel \o TxtLo}

(***************************************************************************)
(* State.                                                                  *)
(***************************************************************************)
VARIABLES
    history,      \* table history: committed rows, in rowid order
    dbQueue,      \* INSERT statements issued by saveToDB, not yet executed
    crashed,      \* the node process has died
    pc,           \* per request: where its handler is suspended
    reqBody,      \* per request: req.body
    chatHistory,  \* per request: rows resolved by getGlobalHistoryFromDB
    chatIds,      \* per request: ids of those rows (not selected by the code)
    readLen,      \* per request: rows in the table when its SELECT ran
    dbError,      \* per request: its SELECT ended with err
    backendCall,  \* per request: the backend call it issued, or Null
    backendFailed,\* per request: its backend call failed
    fullAiResp,   \* per request: accumulated stream text
    consumed,     \* per request: chunks taken from result.stream
    resStatus,    \* per request: HTTP status of the response head, 0 = unset
    headersSent,  \* per request: res.headersSent
    resBody,      \* per request: body writes, in order
    resEnd,       \* per request: "open", "ended", "destroyed"
    steps,        \* per request: the calls its handler made, in statement order
    stmtError,    \* per request: an INSERT it issued failed
    closedAt,     \* per request: body writes delivered when the caller went
                  \* away, -1 while the caller is connected
    GOOGLE_API_KEY,   \* the cloud key is set in the environment
    modelsPc,     \* position of the GET /api/models handler
    allModels,    \* /api/models: the entries collected so far
    cloudReply,   \* /api/models: what the cloud listing source did
    localReply,   \* /api/models: what the local listing source did
    modelsStatus  \* /api/models: HTTP status of the response, 0 = unset

vars == <<history, dbQueue, crashed, pc, reqBody, chatHistory, chatIds, readLen,
          dbError, backendCall, backendFailed, fullAiResp, consumed,
          resStatus, headersSent, resBody, resEnd, steps, stmtError, closedAt,
          GOOGLE_API_KEY, modelsPc, allModels, cloudReply, localReply, modelsStatus>>

storeVars == <<history, dbQueue>>
readVars == <<chatHistory, chatIds, readLen, dbError>>
backendVars == <<backendCall, backendFailed, fullAiResp, consumed>>
resVars == <<resStatus, headersSent, resBody, resEnd>>
\* What no segment of the chat handler touches.
catalogVars == <<GOOGLE_API_KEY, modelsPc, allModels, cloudReply, localReply, modelsStatus>>
sideVars == <<stmtError, closedAt, catalogVars>>
chatVars == <<storeVars, crashed, pc, reqBody, readVars, backendVars, resVars, steps,
              stmtError, closedAt>>

(***************************************************************************)
(* The Message Store: table history and the two database helpers.          *)
(***************************************************************************)
\* INTEGER PRIMARY KEY AUTOINCREMENT: one more than the largest id ever used.
\* Rows are never deleted, so that is the id of the last row.
NextId(table) == IF table = <<>> THEN 1 ELSE table[Len(table)].id + 1

\* The scan the store must not use: ORDER BY id ASC LIMIT limit.
SelectOldest(table, limit) ==
    LET asc == SortSeq(table, LAMBDA a, b : a.id < b.id)
    IN  SubSeq(asc, 1, Min(limit, Len(asc)))

\* SELECT * FROM history ORDER BY id DESC LIMIT limit
SelectLatest(table, limit) ==
    LET desc == SortSeq(table, LAMBDA a, b : a.id > b.id)
    IN  SubSeq(desc, 1, Min(limit, Len(desc)))

\* SELECT ... FROM (subquery) ORDER BY id ASC, all columns still attached.
SelectWindow(table, limit) ==
    SortSeq(SelectLatest(table, limit), LAMBDA a, b : a.id < b.id)

\* getGlobalHistoryFromDB: the limit it chooses.
HistoryLimit(fetchMore) == IF fetchMore THEN LimitMore ELSE LimitDefault

\* getGlobalHistoryFromDB: the rows it resolves with (role, content, image).
getGlobalHistoryFromDB(table, fetchMore) ==
    LET rows == SelectWindow(table, HistoryLimit(fetchMore))
    IN  [i \in 1..Len(rows) |->
            [role |-> rows[i].role, content |-> rows[i].content,
             image |-> rows[i].image]]

\* The ids of those rows, kept beside them for the properties.
WindowIds(table, fetchMore) ==
    LET rows == SelectWindow(table, HistoryLimit(fetchMore))
    IN  [i \in 1..Len(rows) |-> rows[i].id]

\* saveToDB: prepares the INSERT and queues its run; it does not wait for it.
\* by is the request that issued it (bookkeeping, not a column).
saveToDB(queue, role, content, image, by) ==
    Append(queue, [role |-> role, content |-> content, image |-> image, by |-> by])

(***************************************************************************)
(* The chat route: values computed from the request.                       *)
(***************************************************************************)
\* Line 122-124 throw a TypeError when messages is missing or empty.
Malformed(b) == ~b.hasMessages \/ b.messages = <<>>

lastIncoming(b) == b.messages[Len(b.messages)]
\* model || "gemini-1.5-flash": undefined, null and '' are falsy.
currentModel(b) == IF b.model \in {NullText, <<>>} THEN DefaultModel ELSE b.model

\* (lastIncoming.content || "").toLowerCase()
userText(b) ==
    LET c == lastIncoming(b).content
    IN  toLowerCase(IF c = NullText THEN <<>> ELSE c)

\* A variant that tests the text as typed, without lowercasing it.
isSummarizeAsTyped(b) ==
    LET c == lastIncoming(b).content
    IN  \/ includes(c, KwSummera)
        \/ includes(c, KwSammanfatta)
        \/ includes(c, KwMinnsDu)

isSummarize(b) ==
    \/ includes(userText(b), KwSummera)
    \/ includes(userText(b), KwSammanfatta)
    \/ includes(userText(b), KwMinnsDu)

\* A variant that takes only the default identifier for the cloud family.
UsesOllamaUnlessDefault(b) == currentModel(b) # DefaultModel

\* The dispatch test of line 140.
UsesOllama(b) == ~includes(currentModel(b), Gemini)

\* x || " " on a text: the empty string and null/undefined give one space.
OrSpace(text) == IF text \in {NullText, <<>>} THEN <<" ">> ELSE text

\* Lines 141-147: the stored turns as they are, then the incoming message.
\* An image travels as images: [image].
ollamaMessages(rows, last) ==
    [i \in 1..Len(rows) |->
        [role |-> rows[i].role, text |-> rows[i].content, image |-> rows[i].image]]
      \o << [role |-> "user", text |-> last.content, image |-> last.image] >>

\* A variant that sends the stored roles to the cloud backend as they are.
geminiHistoryKeepsRoles(rows) ==
    [i \in 1..Len(rows) |->
        [role |-> rows[i].role,
         text |-> OrSpace(rows[i].content), image |-> rows[i].image]]

\* Lines 168-171: role assistant becomes model, any other role user; an
\* empty text becomes one space; an image travels as inlineData.
geminiHistory(rows) ==
    [i \in 1..Len(rows) |->
        [role |-> IF rows[i].role = "assistant" THEN "model" ELSE "user",
         text |-> OrSpace(rows[i].content), image |-> rows[i].image]]

\* Lines 174-177: the parts of the incoming message; sendMessageStream
\* submits them as a user content after the history.
lastParts(last) ==
    [role |-> "user", text |-> OrSpace(last.content), image |-> last.image]

\* One call the handler makes on the Store, a backend or the response, as
\* written to steps in statement order.
Did(op, role, content, image) ==
    [op |-> op, role |-> role, content |-> content, image |-> image]

(***************************************************************************)
(* Ways a handler segment can end.                                         *)
(***************************************************************************)
\* The process dies: queued statements are lost, open responses are cut.
ProcessExit ==
    /\ crashed' = TRUE
    /\ dbQueue' = <<>>
    /\ pc' = [q \in Requests |-> IF pc[q] \in {"idle", "done"} THEN pc[q] ELSE "dead"]
    /\ resEnd' = [q \in Requests |->
                    IF pc[q] # "idle" /\ resEnd[q] = "open" THEN "destroyed"
                    ELSE resEnd[q]]
    /\ UNCHANGED <<resStatus, headersSent, resBody, steps>>

\* The async handler's promise rejects (a throw outside the try, or inside
\* the catch).  What follows is decided by the Express and Node versions
\* the deployment installs: nobody handles it and the response is left
\* open; the unhandled rejection terminates the process; or the router
\* passes it to the default error handler, which answers 500 when the
\* head is not sent yet and destroys the socket when it is.
Rejected(r) ==
    \/ /\ pc' = [pc EXCEPT ![r] = "unhandled"]
       /\ UNCHANGED <<crashed, dbQueue, resStatus, headersSent, resBody, resEnd, steps>>
    \/ ProcessExit
    \/ /\ pc' = [pc EXCEPT ![r] = "unhandled"]
       /\ UNCHANGED <<crashed, dbQueue, steps>>
       /\ IF headersSent[r]
          THEN /\ resEnd' = [resEnd EXCEPT ![r] = "destroyed"]
               /\ UNCHANGED <<resStatus, headersSent, resBody>>
          ELSE /\ resStatus' = [resStatus EXCEPT ![r] = 500]
               /\ headersSent' = [headersSent EXCEPT ![r] = TRUE]
               /\ resBody' = [resBody EXCEPT ![r] = <<<<"E","r","r","o","r">>>>]
               /\ resEnd' = [resEnd EXCEPT ![r] = "ended"]

\* The catch block: res.status(500).send("Nova Error: " + error.message).
\* send() sets Content-Type, which throws once the head has been sent.
CatchError(r) ==
    IF headersSent[r]
    THEN Rejected(r)
    ELSE /\ resStatus' = [resStatus EXCEPT ![r] = 500]
         /\ headersSent' = [headersSent EXCEPT ![r] = TRUE]
         /\ resBody' = [resBody EXCEPT ![r] = <<NovaError>>]
         /\ resEnd' = [resEnd EXCEPT ![r] = "ended"]
         /\ pc' = [pc EXCEPT ![r] = "done"]
         /\ steps' = [steps EXCEPT ![r] = Append(@, Did("res.status(500).send", Null, NovaError, Null))]
         /\ UNCHANGED <<crashed, dbQueue>>

(***************************************************************************)
(* The chat route: one action per segment of the handler.                  *)
(***************************************************************************)
\* A variant that hands the user message to saveToDB before the SELECT.
ChatReceiveSavesFirst(r) ==
    /\ ~crashed
    /\ pc[r] = "idle"
    /\ \A q \in Requests : q < r => pc[q] # "idle"
    /\ \E b \in Bodies :
        /\ ~Malformed(b)
        /\ reqBody' = [reqBody EXCEPT ![r] = b]
        /\ dbQueue' = saveToDB(dbQueue, "user", lastIncoming(b).content,
                               lastIncoming(b).image, r)
    /\ pc' = [pc EXCEPT ![r] = "awaitHistory"]
    /\ UNCHANGED <<history, crashed, readVars, backendVars, resVars, steps>>
    /\ UNCHANGED sideVars

\* Lines 121-132: the body is read and the SELECT is issued.
ChatReceive(r) ==
    /\ ~crashed
    /\ pc[r] = "idle"
    /\ \A q \in Requests : q < r => pc[q] # "idle"    \* requests are numbered as they arrive
    /\ \E b \in Bodies :
        /\ reqBody' = [reqBody EXCEPT ![r] = b]
        /\ IF Malformed(b)
           THEN Rejected(r)
           ELSE /\ pc' = [pc EXCEPT ![r] = "awaitHistory"]
                /\ UNCHANGED <<crashed, dbQueue, resVars, steps>>
    /\ UNCHANGED <<history, readVars, backendVars>>
    /\ UNCHANGED sideVars

\* A variant that holds the SELECT back while another request is between
\* its user turn and its assistant turn.
DbAllSerialized(r) ==
    /\ ~crashed
    /\ pc[r] = "awaitHistory"
    /\ \A q \in Requests \ {r} :
          pc[q] \notin {"awaitFetch", "awaitJson", "awaitSend", "streaming"}
    /\ chatHistory' = [chatHistory EXCEPT
          ![r] = getGlobalHistoryFromDB(history, isSummarize(reqBody[r]))]
    /\ chatIds' = [chatIds EXCEPT ![r] = WindowIds(history, isSummarize(reqBody[r]))]
    /\ readLen' = [readLen EXCEPT ![r] = Len(history)]
    /\ pc' = [pc EXCEPT ![r] = "historyReady"]
    /\ UNCHANGED <<storeVars, crashed, reqBody, dbError, backendVars, resVars, steps>>
    /\ UNCHANGED sideVars

\* Line 66: SQLite runs the SELECT and calls back with err or rows.
DbAll(r) ==
    /\ ~crashed
    /\ pc[r] = "awaitHistory"
    /\ \/ /\ dbError' = [dbError EXCEPT ![r] = TRUE]
          /\ UNCHANGED <<chatHistory, chatIds, readLen>>
       \/ /\ chatHistory' = [chatHistory EXCEPT
                ![r] = getGlobalHistoryFromDB(history, isSummarize(reqBody[r]))]
          /\ chatIds' = [chatIds EXCEPT
                ![r] = WindowIds(history, isSummarize(reqBody[r]))]
          /\ readLen' = [readLen EXCEPT ![r] = Len(history)]
          /\ UNCHANGED dbError
    /\ pc' = [pc EXCEPT ![r] = "historyReady"]
    /\ UNCHANGED <<storeVars, crashed, reqBody, backendVars, resVars, steps>>
    /\ UNCHANGED sideVars

\* Lines 132-153 and 162-180: the await of line 132 resumes; the user
\* message is handed to saveToDB and the backend call is issued.
ChatHistoryLoaded(r) ==
    /\ ~crashed
    /\ pc[r] = "historyReady"
    /\ IF dbError[r]
       THEN /\ CatchError(r)
            /\ UNCHANGED backendCall
       ELSE /\ dbQueue' = saveToDB(dbQueue, "user", lastIncoming(reqBody[r]).content,
                                   lastIncoming(reqBody[r]).image, r)
            /\ backendCall' = [backendCall EXCEPT ![r] =
                  [backend |-> IF UsesOllama(reqBody[r]) THEN "ollama" ELSE "gemini",
                   model |-> currentModel(reqBody[r]),
                   content |-> IF UsesOllama(reqBody[r])
                               THEN lastIncoming(reqBody[r]).content
                               ELSE lastParts(lastIncoming(reqBody[r])).text,
                   image |-> lastIncoming(reqBody[r]).image,
                   messages |-> IF UsesOllama(reqBody[r])
                                THEN ollamaMessages(chatHistory[r], lastIncoming(reqBody[r]))
                                ELSE Append(geminiHistory(chatHistory[r]),
                                            lastParts(lastIncoming(reqBody[r])))]]
            /\ pc' = [pc EXCEPT ![r] =
                  IF UsesOllama(reqBody[r]) THEN "awaitFetch" ELSE "awaitSend"]
            /\ steps' = [steps EXCEPT ![r] = @ \o
                  << Did("saveToDB", "user", lastIncoming(reqBody[r]).content,
                         lastIncoming(reqBody[r]).image),
                     Did(IF UsesOllama(reqBody[r]) THEN "fetch" ELSE "sendMessageStream",
                         Null, lastIncoming(reqBody[r]).content,
                         lastIncoming(reqBody[r]).image) >>]
            /\ UNCHANGED <<crashed, resVars>>
    /\ UNCHANGED <<history, reqBody, readVars, backendFailed, fullAiResp, consumed>>
    /\ UNCHANGED sideVars

\* Line 149: the fetch to the local backend settles.
FetchSettled(r) ==
    /\ ~crashed
    /\ pc[r] = "awaitFetch"
    /\ \/ /\ pc' = [pc EXCEPT ![r] = "awaitJson"]
          /\ UNCHANGED <<crashed, dbQueue, resVars, backendFailed, steps>>
       \/ /\ backendFailed' = [backendFailed EXCEPT ![r] = TRUE]
          /\ CatchError(r)
    /\ UNCHANGED <<history, reqBody, readVars, backendCall, fullAiResp, consumed>>
    /\ UNCHANGED sideVars

\* A variant with lines 157 and 158 exchanged: the reply is sent, then stored.
JsonSettledSendsFirst(r) ==
    /\ ~crashed
    /\ pc[r] = "awaitJson"
    /\ \/ /\ backendFailed' = [backendFailed EXCEPT ![r] = TRUE]
          /\ CatchError(r)
       \/ \E aiText \in AiTexts :
          /\ resStatus' = [resStatus EXCEPT ![r] = 200]
          /\ headersSent' = [headersSent EXCEPT ![r] = TRUE]
          /\ resBody' = [resBody EXCEPT ![r] = <<aiText>>]
          /\ resEnd' = [resEnd EXCEPT ![r] = "ended"]
          /\ dbQueue' = saveToDB(dbQueue, "assistant", aiText, Null, r)
          /\ pc' = [pc EXCEPT ![r] = "done"]
          /\ steps' = [steps EXCEPT ![r] = @ \o
                << Did("res.send", Null, aiText, Null),
                   Did("saveToDB", "assistant", aiText, Null) >>]
          /\ UNCHANGED <<crashed, backendFailed>>
    /\ UNCHANGED <<history, reqBody, readVars, backendCall, fullAiResp, consumed>>
    /\ UNCHANGED sideVars

\* Lines 154-158: the reply body is parsed, stored and sent.
\* It may be unparsable, or carry no message.
JsonSettled(r) ==
    /\ ~crashed
    /\ pc[r] = "awaitJson"
    /\ \/ /\ backendFailed' = [backendFailed EXCEPT ![r] = TRUE]
          /\ CatchError(r)
       \/ \E aiText \in AiTexts :
          /\ dbQueue' = saveToDB(dbQueue, "assistant", aiText, Null, r)
          /\ resStatus' = [resStatus EXCEPT ![r] = 200]
          /\ headersSent' = [headersSent EXCEPT ![r] = TRUE]
          /\ resBody' = [resBody EXCEPT ![r] = <<aiText>>]
          /\ resEnd' = [resEnd EXCEPT ![r] = "ended"]
          /\ pc' = [pc EXCEPT ![r] = "done"]
          /\ steps' = [steps EXCEPT ![r] = @ \o
                << Did("saveToDB", "assistant", aiText, Null),
                   Did("res.send", Null, aiText, Null) >>]
          /\ UNCHANGED <<crashed, backendFailed>>
    /\ UNCHANGED <<history, reqBody, readVars, backendCall, fullAiResp, consumed>>
    /\ UNCHANGED sideVars

\* Lines 180-183: sendMessageStream settles; the stream is open or failed.
SendSettled(r) ==
    /\ ~crashed
    /\ pc[r] = "awaitSend"
    /\ \/ /\ pc' = [pc EXCEPT ![r] = "streaming"]
          /\ fullAiResp' = [fullAiResp EXCEPT ![r] = <<>>]
          /\ UNCHANGED <<crashed, dbQueue, resVars, backendFailed, steps>>
       \/ /\ backendFailed' = [backendFailed EXCEPT ![r] = TRUE]
          /\ CatchError(r)
          /\ UNCHANGED fullAiResp
    /\ UNCHANGED <<history, reqBody, readVars, backendCall, consumed>>
    /\ UNCHANGED sideVars

\* A buffering variant: the chunk is accumulated, nothing is written.
StreamChunkBuffered(r) ==
    /\ ~crashed
    /\ pc[r] = "streaming"
    /\ consumed[r] < MaxFragments
    /\ fullAiResp' = [fullAiResp EXCEPT ![r] = @ \o Fragment(consumed[r] + 1)]
    /\ consumed' = [consumed EXCEPT ![r] = @ + 1]
    /\ UNCHANGED <<storeVars, crashed, pc, reqBody, readVars, backendCall,
                   backendFailed, resVars, steps>>
    /\ UNCHANGED sideVars

\* A variant whose write to a closed connection ends the loop.
StreamChunkStopsWhenGone(r) ==
    /\ ~crashed
    /\ pc[r] = "streaming"
    /\ closedAt[r] = -1
    /\ consumed[r] < MaxFragments
    /\ LET chunkText == Fragment(consumed[r] + 1)
       IN  /\ fullAiResp' = [fullAiResp EXCEPT ![r] = @ \o chunkText]
           /\ resBody' = [resBody EXCEPT ![r] = Append(@, chunkText)]
    /\ consumed' = [consumed EXCEPT ![r] = @ + 1]
    /\ headersSent' = [headersSent EXCEPT ![r] = TRUE]
    /\ resStatus' = [resStatus EXCEPT ![r] = 200]
    /\ UNCHANGED <<storeVars, crashed, pc, reqBody, readVars, backendCall,
                   backendFailed, resEnd, steps>>
    /\ UNCHANGED sideVars

\* Lines 185-189: one chunk arrives; it is accumulated and written.
\* res.write on a connection the caller has closed does not throw; what is
\* written then reaches nobody.
StreamChunk(r) ==
    /\ ~crashed
    /\ pc[r] = "streaming"
    /\ consumed[r] < MaxFragments
    /\ LET chunkText == Fragment(consumed[r] + 1)
       IN  /\ fullAiResp' = [fullAiResp EXCEPT ![r] = @ \o chunkText]
           /\ resBody' = [resBody EXCEPT ![r] = Append(@, chunkText)]
    /\ consumed' = [consumed EXCEPT ![r] = @ + 1]
    /\ headersSent' = [headersSent EXCEPT ![r] = TRUE]
    /\ resStatus' = [resStatus EXCEPT ![r] = 200]
    /\ UNCHANGED <<storeVars, crashed, pc, reqBody, readVars, backendCall,
                   backendFailed, resEnd, steps>>
    /\ UNCHANGED sideVars

\* A variant that keeps what was accumulated when the stream throws.
StreamErrorSavesPartial(r) ==
    /\ ~crashed
    /\ pc[r] = "streaming"
    /\ backendFailed' = [backendFailed EXCEPT ![r] = TRUE]
    /\ dbQueue' = saveToDB(dbQueue, "assistant", fullAiResp[r], Null, r)
    /\ pc' = [pc EXCEPT ![r] = "done"]
    /\ resEnd' = [resEnd EXCEPT ![r] = "ended"]
    /\ UNCHANGED <<history, crashed, reqBody, readVars, backendCall, fullAiResp,
                   consumed, resStatus, headersSent, resBody, steps>>
    /\ UNCHANGED sideVars

\* Lines 185-186, 195-198: the stream, or chunk.text(), throws.
StreamError(r) ==
    /\ ~crashed
    /\ pc[r] = "streaming"
    /\ backendFailed' = [backendFailed EXCEPT ![r] = TRUE]
    /\ CatchError(r)
    /\ UNCHANGED <<history, reqBody, readVars, backendCall, fullAiResp, consumed>>
    /\ UNCHANGED sideVars

\* A variant that ends the response without storing the reply.
StreamEndWithoutSave(r) ==
    /\ ~crashed
    /\ pc[r] = "streaming"
    /\ resStatus' = [resStatus EXCEPT ![r] = 200]
    /\ headersSent' = [headersSent EXCEPT ![r] = TRUE]
    /\ resEnd' = [resEnd EXCEPT ![r] = "ended"]
    /\ pc' = [pc EXCEPT ![r] = "done"]
    /\ steps' = [steps EXCEPT ![r] = Append(@, Did("res.end", Null, <<>>, Null))]
    /\ UNCHANGED <<storeVars, crashed, reqBody, readVars, backendVars, resBody>>
    /\ UNCHANGED sideVars

\* Lines 191-193: the stream is exhausted; the reply is stored, the
\* response is ended.
StreamEnd(r) ==
    /\ ~crashed
    /\ pc[r] = "streaming"
    /\ dbQueue' = saveToDB(dbQueue, "assistant", fullAiResp[r], Null, r)
    /\ resStatus' = [resStatus EXCEPT ![r] = 200]
    /\ headersSent' = [headersSent EXCEPT ![r] = TRUE]
    /\ resEnd' = [resEnd EXCEPT ![r] = "ended"]
    /\ pc' = [pc EXCEPT ![r] = "done"]
    /\ steps' = [steps EXCEPT ![r] = @ \o
          << Did("saveToDB", "assistant", fullAiResp[r], Null),
             Did("res.end", Null, <<>>, Null) >>]
    /\ UNCHANGED <<history, crashed, reqBody, readVars, backendVars, resBody>>
    /\ UNCHANGED sideVars

\* The caller closes the connection while the response is being streamed.
\* The handler listens to no 'close' event: nothing of its state changes.
ClientDisconnect(r) ==
    /\ ~crashed
    /\ pc[r] = "streaming"
    /\ closedAt[r] = -1
    /\ closedAt' = [closedAt EXCEPT ![r] = Len(resBody[r])]
    /\ UNCHANGED <<storeVars, crashed, pc, reqBody, readVars, backendVars, resVars,
                   steps, stmtError, catalogVars>>

(***************************************************************************)
(* The SQLite worker and the process.                                      *)
(***************************************************************************)
\* A variant whose INSERT replaces the newest row instead of adding one
\* (INSERT OR REPLACE under the id of the last row).
DbRunReplacesLast ==
    /\ ~crashed
    /\ dbQueue # <<>>
    /\ LET row == [id |-> IF history = <<>> THEN 1 ELSE history[Len(history)].id,
                   role |-> Head(dbQueue).role, content |-> Head(dbQueue).content,
                   image |-> Head(dbQueue).image, by |-> Head(dbQueue).by]
       IN  history' = IF history = <<>> THEN <<row>>
                      ELSE [history EXCEPT ![Len(history)] = row]
    /\ dbQueue' = Tail(dbQueue)
    /\ UNCHANGED <<crashed, pc, resVars, steps, stmtError>>
    /\ UNCHANGED <<reqBody, readVars, backendVars, closedAt, catalogVars>>

\* Lines 77-79: the oldest queued INSERT runs and the row gets its id, or
\* it fails (SQLITE_BUSY, SQLITE_FULL, ...).  stmt.run was given no callback,
\* so the statement emits 'error'; nothing listens, the event is thrown as
\* an uncaught exception and the process ends.
DbRun ==
    /\ ~crashed
    /\ dbQueue # <<>>
    /\ \/ /\ history' = Append(history,
                [id |-> NextId(history), role |-> Head(dbQueue).role,
                 content |-> Head(dbQueue).content, image |-> Head(dbQueue).image,
                 by |-> Head(dbQueue).by])
          /\ dbQueue' = Tail(dbQueue)
          /\ UNCHANGED <<crashed, pc, resVars, steps, stmtError>>
       \/ /\ stmtError' = [stmtError EXCEPT ![Head(dbQueue).by] = TRUE]
          /\ ProcessExit
          /\ UNCHANGED history
    /\ UNCHANGED <<reqBody, readVars, backendVars, closedAt, catalogVars>>

\* The process is killed (power loss, OOM, restart by start_all.sh).
Crash ==
    /\ ~crashed
    /\ \E q \in Requests : pc[q] # "idle"
    /\ ProcessExit
    /\ UNCHANGED <<history, reqBody, readVars, backendVars>>
    /\ UNCHANGED sideVars

(***************************************************************************)
(* The model catalog: GET /api/models.                                     *)
(***************************************************************************)
\* String.prototype.replace with a string pattern: the first occurrence of
\* pat is removed, the text is unchanged when there is none.
replace(text, pat) ==
    IF includes(text, pat)
    THEN LET i == CHOOSE k \in 1..(Len(text) - Len(pat) + 1) :
                    /\ SubSeq(text, k, k + Len(pat) - 1) = pat
                    /\ \A j \in 1..(k - 1) : SubSeq(text, j, j + Len(pat) - 1) # pat
         IN  SubSeq(text, 1, i - 1) \o SubSeq(text, i + Len(pat), Len(text))
    ELSE text

ModelsSlash == <<"m","o","d","e","l","s","/">>
\* The markers put in front of the display names (two emoji in the source).
CloudMark == <<"(cloud)", " ">>
LocalMark == <<"(home)", " ", "O","l","l","a","m","a",":"," ">>

\* Entries the cloud listing may hold.  hasMethods is FALSE when the entry
\* has no supportedGenerationMethods field.
CloudGeminiPro ==
    [name |-> ModelsSlash \o ModelGeminiPro, displayName |-> <<"P","r","o">>,
     hasMethods |-> TRUE, methods |-> {"generateContent", "countTokens"}]
CloudTuned ==
    [name |-> <<"t">> \o ModelsSlash \o Gemini, displayName |-> <<"T">>,
     hasMethods |-> TRUE, methods |-> {"generateContent"}]
CloudGeminiEmbed ==
    [name |-> ModelsSlash \o Gemini \o <<"-","e">>, displayName |-> <<"E">>,
     hasMethods |-> TRUE, methods |-> {"embedContent"}]
CloudAqa ==
    [name |-> ModelsSlash \o <<"a","q","a">>, displayName |-> <<"A">>,
     hasMethods |-> FALSE, methods |-> {}]
CloudBroken ==
    [name |-> ModelsSlash \o Gemini \o <<"-","x">>, displayName |-> <<"X">>,
     hasMethods |-> FALSE, methods |-> {}]
CloudEntries == {CloudGeminiPro, CloudTuned, CloudGeminiEmbed, CloudAqa, CloudBroken}

\* Entries /api/tags of the local backend may hold.
TagEntries == {[name |-> ModelLlama], [name |-> <<"m","i","s">>]}

Listings(entries) == UNION {[1..n -> entries] : n \in 0..MaxListing}

\* What response.json() of a source can give: it rejects ("badJson"), the
\* object has no models field ("noModels"), or it has a listing.
Replies(entries) ==
    {[kind |-> k, models |-> <<>>] : k \in {"badJson", "noModels"}}
      \cup {[kind |-> "listing", models |-> l] : l \in Listings(entries)}

NoReply == [kind |-> "none", models |-> <<>>]

\* Line 103: the filter callback reads supportedGenerationMethods only of
\* entries whose name includes 'gemini'; it throws when that field is missing.
FilterThrows(models) ==
    \E i \in 1..Len(models) : includes(models[i].name, Gemini) /\ ~models[i].hasMethods

\* Lines 102-104: data.models.filter(...).map(...).
GeminiModels(models) ==
    LET kept == SelectSeq(models, LAMBDA m :
                    includes(m.name, Gemini) /\ "generateContent" \in m.methods)
    IN  [i \in 1..Len(kept) |->
            [id |-> replace(kept[i].name, ModelsSlash),
             name |-> CloudMark \o kept[i].displayName]]

\* Line 113: data.models.map(...).
OllamaModels(models) ==
    [i \in 1..Len(models) |->
        [id |-> models[i].name, name |-> LocalMark \o models[i].name]]

\* Lines 93-100: allModels = []; the cloud source is asked when the key is
\* set, the local source otherwise.
ModelsReceive ==
    /\ ~crashed
    /\ modelsPc = "idle"
    /\ allModels' = <<>>
    /\ modelsPc' = IF GOOGLE_API_KEY THEN "geminiFetch" ELSE "ollamaFetch"
    /\ UNCHANGED <<GOOGLE_API_KEY, cloudReply, localReply, modelsStatus>>
    /\ UNCHANGED chatVars

\* Line 100: the fetch of the cloud listing settles; a rejection is caught
\* at line 105 and the handler goes on to the local source.
GeminiFetchSettled ==
    /\ ~crashed
    /\ modelsPc = "geminiFetch"
    /\ \/ /\ modelsPc' = "geminiJson"
          /\ UNCHANGED cloudReply
       \/ /\ cloudReply' = [kind |-> "fetchFailed", models |-> <<>>]
          /\ modelsPc' = "ollamaFetch"
    /\ UNCHANGED <<GOOGLE_API_KEY, allModels, localReply, modelsStatus>>
    /\ UNCHANGED chatVars

\* A variant whose cloud section has no try: a throw ends the handler, and
\* the request is answered by the error path.
GeminiJsonSettledUncaught ==
    /\ ~crashed
    /\ modelsPc = "geminiJson"
    /\ \E data \in Replies(CloudEntries) :
        /\ cloudReply' = data
        /\ IF data.kind # "listing" \/ FilterThrows(data.models)
           THEN /\ modelsStatus' = 500
                /\ modelsPc' = "done"
                /\ UNCHANGED allModels
           ELSE /\ allModels' = allModels \o GeminiModels(data.models)
                /\ modelsPc' = "ollamaFetch"
                /\ UNCHANGED modelsStatus
    /\ UNCHANGED <<GOOGLE_API_KEY, localReply>>
    /\ UNCHANGED chatVars

\* Lines 101-105: the body of the cloud reply is parsed, filtered, mapped
\* and concatenated; any throw on the way is caught and nothing is added.
GeminiJsonSettled ==
    /\ ~crashed
    /\ modelsPc = "geminiJson"
    /\ \E data \in Replies(CloudEntries) :
        /\ cloudReply' = data
        /\ allModels' =
              IF data.kind # "listing" \/ FilterThrows(data.models)
              THEN allModels
              ELSE allModels \o GeminiModels(data.models)
    /\ modelsPc' = "ollamaFetch"
    /\ UNCHANGED <<GOOGLE_API_KEY, localReply, modelsStatus>>
    /\ UNCHANGED chatVars

\* Lines 110-111, 115-117: the fetch of /api/tags settles.  When it rejects
\* (caught) or the response is not ok, the collected entries are sent.
OllamaFetchSettled ==
    /\ ~crashed
    /\ modelsPc = "ollamaFetch"
    /\ \/ /\ modelsPc' = "ollamaJson"
          /\ UNCHANGED <<localReply, modelsStatus>>
       \/ \E k \in {"fetchFailed", "notOk"} :
          /\ localReply' = [kind |-> k, models |-> <<>>]
          /\ modelsStatus' = 200
          /\ modelsPc' = "done"
    /\ UNCHANGED <<GOOGLE_API_KEY, allModels, cloudReply>>
    /\ UNCHANGED chatVars

\* Lines 112-117: the local reply is parsed, mapped and concatenated (a
\* throw is caught); res.json(allModels) answers 200.
OllamaJsonSettled ==
    /\ ~crashed
    /\ modelsPc = "ollamaJson"
    /\ \E data \in Replies(TagEntries) :
        /\ localReply' = data
        /\ allModels' =
              IF data.kind # "listing" THEN allModels
              ELSE allModels \o OllamaModels(data.models)
    /\ modelsStatus' = 200
    /\ modelsPc' = "done"
    /\ UNCHANGED <<GOOGLE_API_KEY, cloudReply>>
    /\ UNCHANGED chatVars

(***************************************************************************)
(* Specifications.                                                         *)
(***************************************************************************)
InitRequests ==
    /\ dbQueue = <<>>
    /\ crashed = FALSE
    /\ pc = [r \in Requests |-> "idle"]
    /\ reqBody = [r \in Requests |-> [hasMessages |-> FALSE, messages |-> <<>>, model |-> NullText]]
    /\ chatHistory = [r \in Requests |-> <<>>]
    /\ chatIds = [r \in Requests |-> <<>>]
    /\ readLen = [r \in Requests |-> 0]
    /\ dbError = [r \in Requests |-> FALSE]
    /\ backendCall = [r \in Requests |-> [backend |-> "none", model |-> NullText,
                                          content |-> NullText, image |-> Null,
                                          messages |-> <<>>]]
    /\ backendFailed = [r \in Requests |-> FALSE]
    /\ fullAiResp = [r \in Requests |-> <<>>]
    /\ consumed = [r \in Requests |-> 0]
    /\ resStatus = [r \in Requests |-> 0]
    /\ headersSent = [r \in Requests |-> FALSE]
    /\ resBody = [r \in Requests |-> <<>>]
    /\ resEnd = [r \in Requests |-> "open"]
    /\ steps = [r \in Requests |-> <<>>]
    /\ stmtError = [r \in Requests |-> FALSE]
    /\ closedAt = [r \in Requests |-> -1]
    /\ modelsPc = "idle"
    /\ allModels = <<>>
    /\ cloudReply = NoReply
    /\ localReply = NoReply
    /\ modelsStatus = 0

\* The table is created empty on first run (CREATE TABLE IF NOT EXISTS).
\* The chat route is explored with the cloud key set.
Init ==
    /\ history = <<>>
    /\ GOOGLE_API_KEY = TRUE
    /\ InitRequests

Step(r) ==
    \/ ChatReceive(r)
    \/ DbAll(r)
    \/ ChatHistoryLoaded(r)
    \/ FetchSettled(r)
    \/ JsonSettled(r)
    \/ SendSettled(r)
    \/ StreamChunk(r)
    \/ StreamError(r)
    \/ StreamEnd(r)

Next ==
    \/ \E r \in Requests : Step(r)
    \/ DbRun
    \/ Crash

Spec == Init /\ [][Next]_vars

\* A conversation of n earlier turns, user and assistant alternating, each
\* with a text of its own (its number in decimal).
DigitChar(d) ==
    CASE d = 0 -> "0" [] d = 1 -> "1" [] d = 2 -> "2" [] d = 3 -> "3" [] d = 4 -> "4"
      [] d = 5 -> "5" [] d = 6 -> "6" [] d = 7 -> "7" [] d = 8 -> "8" [] OTHER -> "9"

RECURSIVE Decimal(_)
Decimal(n) == IF n < 10 THEN <<DigitChar(n)>> ELSE Decimal(n \div 10) \o <<DigitChar(n % 10)>>

StoredConversation(n) ==
    [i \in 1..n |->
        [id |-> i, role |-> IF i % 2 = 1 THEN "user" ELSE "assistant",
         content |-> Decimal(i), image |-> IF i % 5 = 1 THEN Jpeg ELSE Null, by |-> 0]]

\* The server is started on a database that already holds a conversation,
\* and serves one request.
InitWindow ==
    /\ \E n \in 0..MaxStored : history = StoredConversation(n)
    /\ GOOGLE_API_KEY = TRUE
    /\ InitRequests

NextWindow ==
    \/ Step(1)
    \/ DbRun
    \/ Crash

SpecWindow == InitWindow /\ [][NextWindow]_vars

\* One GET /api/models request, with the key set or not (line 29).
InitModels ==
    /\ history = <<>>
    /\ GOOGLE_API_KEY \in BOOLEAN
    /\ InitRequests

NextModels ==
    \/ ModelsReceive
    \/ GeminiFetchSettled
    \/ GeminiJsonSettled
    \/ OllamaFetchSettled
    \/ OllamaJsonSettled

SpecModels == InitModels /\ [][NextModels]_vars

\* The chat route with a caller that may close the connection of the first
\* request while its response is streamed.
NextDisconnect ==
    \/ \E r \in Requests : Step(r)
    \/ ClientDisconnect(1)
    \/ DbRun
    \/ Crash

SpecDisconnect == Init /\ [][NextDisconnect]_vars

(***************************************************************************)
(* Vocabulary of the properties.                                           *)
(***************************************************************************)
Range(f) == {f[i] : i \in DOMAIN f}

\* The handler of r has passed saveToDB('user', ...) of line 135.
UserSaveIssued(r) == backendCall[r].backend # "none"

\* The call is over for the caller: the handler has ended the response.
Answered(r) == pc[r] = "done"

\* Turns request r has appended: committed rows, and inserts still queued.
RowsBy(r, role) == {i \in 1..Len(history) : history[i].by = r /\ history[i].role = role}
QueuedBy(r, role) == {i \in 1..Len(dbQueue) : dbQueue[i].by = r /\ dbQueue[i].role = role}

\* The pieces written to the response, joined in the order written.
RECURSIVE Concat(_)
Concat(pieces) == IF pieces = <<>> THEN <<>> ELSE Head(pieces) \o Concat(Tail(pieces))

\* The contents request r has stored or queued as its assistant turn.
AssistantContents(r) ==
    {history[i].content : i \in RowsBy(r, "assistant")}
      \cup {dbQueue[i].content : i \in QueuedBy(r, "assistant")}

(***************************************************************************)
(* C1.  After any /chat call, whatever its outcome, the Store holds a      *)
(* Turn with role user and the content of the last submitted message.      *)
(* Read in the claim's favour: the call is over, and no INSERT of the      *)
(* request is still waiting to run.                                        *)
(***************************************************************************)
C1_UserTurnStoredAfterCall ==
    \A r \in Requests :
        (Answered(r) /\ QueuedBy(r, "user") = {})
            => \E i \in 1..Len(history) :
                  /\ history[i].role = "user"
                  /\ history[i].content = lastIncoming(reqBody[r]).content

(***************************************************************************)
(* C2.  A request whose backend call failed appends no assistant Turn,     *)
(* also when fragments had been accumulated.                               *)
(***************************************************************************)
C2_NoAssistantTurnOnFailure ==
    \A r \in Requests :
        backendFailed[r] => RowsBy(r, "assistant") = {} /\ QueuedBy(r, "assistant") = {}

\* A stream failed after two fragments were accumulated; the user turn of
\* that request is in the table and nothing is left to run.
C2_Witness ==
    \E r \in Requests :
        /\ backendFailed[r]
        /\ consumed[r] = 2
        /\ fullAiResp[r] = TxtHel \o TxtLo
        /\ RowsBy(r, "user") # {}
        /\ dbQueue = <<>>

(***************************************************************************)
(* C3.  When the backend call is dispatched the user Turn of the request   *)
(* is already committed, so a crash after the append step never loses it.  *)
(***************************************************************************)
C3_UserTurnCommittedAtDispatch ==
    \A r \in Requests : UserSaveIssued(r) => RowsBy(r, "user") # {}

(***************************************************************************)
(* C4.  When the stream fails after a fragment was forwarded, the caller   *)
(* gets the forwarded fragments and then an explicit failure signal; the   *)
(* response neither stays open nor ends like a success.  A response cut    *)
(* by destroying the connection is counted as such a signal here.          *)
(***************************************************************************)
C4_FailureSignalAfterFragments ==
    \A r \in Requests :
        (backendFailed[r] /\ consumed[r] >= 1)
            => /\ resEnd[r] # "open"
               /\ resStatus[r] = 500 \/ resEnd[r] = "destroyed"

(***************************************************************************)
(* C5.  For a completed streaming request the fragments written to the     *)
(* caller, joined in order, are the content of the assistant Turn it       *)
(* persists; and every fragment taken from the stream has been written     *)
(* before the next one is taken.                                           *)
(***************************************************************************)
C5_StreamConcatenation ==
    \A r \in Requests :
        /\ pc[r] = "streaming"
              => /\ Len(resBody[r]) = consumed[r]
                 /\ fullAiResp[r] = Concat(resBody[r])
        /\ (backendCall[r].backend = "gemini" /\ Answered(r) /\ ~backendFailed[r])
              => /\ Len(resBody[r]) = consumed[r]
                 /\ AssistantContents(r) \subseteq {Concat(resBody[r])}
                 /\ ~crashed => AssistantContents(r) # {}

\* A stream of two fragments ran to its end and its assistant row is stored.
C5_Witness ==
    \E r \in Requests :
        /\ backendCall[r].backend = "gemini"
        /\ Answered(r) /\ ~backendFailed[r]
        /\ resBody[r] = <<TxtHel, TxtLo>>
        /\ \E i \in RowsBy(r, "assistant") : history[i].content = <<"H","e","l","l","o">>

(***************************************************************************)
(* C6.  recent(k) returns exactly the k Turns with the highest ids, in     *)
(* ascending id order; never the k oldest.  N is the number of rows the    *)
(* table held when the SELECT ran, k the limit the request asked for.      *)
(***************************************************************************)
C6_RecentReturnsLatest ==
    \A r \in Requests :
        (pc[r] # "idle" /\ ~Malformed(reqBody[r]) /\ ~dbError[r])
            => LET N == readLen[r]
                   k == Min(HistoryLimit(isSummarize(reqBody[r])), N)
               IN  /\ \A j \in 1..(N - 1) : history[j].id < history[j + 1].id
                   /\ chatIds[r] = [i \in 1..k |-> history[N - k + i].id]
                   /\ chatHistory[r] =
                        [i \in 1..k |->
                            [role |-> history[N - k + i].role,
                             content |-> history[N - k + i].content,
                             image |-> history[N - k + i].image]]

\* An ordinary request read a table of more than 60 rows: its window starts
\* after the oldest row and ends at the newest.
C6_Witness ==
    \E r \in Requests :
        /\ pc[r] = "historyReady" /\ ~dbError[r]
        /\ readLen[r] = 61
        /\ Len(chatIds[r]) = 60
        /\ chatIds[r][1] = 2 /\ chatIds[r][60] = 61
        /\ chatHistory[r][60].content = <<"6","1">>

(***************************************************************************)
(* C7.  The Context Window holds 150 prior Turns when the lowercased       *)
(* incoming content contains a recall keyword and 60 otherwise, or all     *)
(* stored Turns when the Store holds fewer.                                *)
(***************************************************************************)
HasRecallKeyword(b) ==
    \E kw \in {KwSummera, KwSammanfatta, KwMinnsDu} :
        includes(toLowerCase(lastIncoming(b).content), kw)

C7_WindowSize ==
    \A r \in Requests :
        (pc[r] # "idle" /\ ~Malformed(reqBody[r]) /\ ~dbError[r])
            => Len(chatHistory[r]) =
                 Min(IF HasRecallKeyword(reqBody[r]) THEN 150 ELSE 60, readLen[r])

\* "SUMMERA det" arrived when the table held 151 rows: the window has 150.
C7_Witness ==
    \E r \in Requests :
        /\ pc[r] = "historyReady" /\ ~dbError[r]
        /\ lastIncoming(reqBody[r]).content = TxtSummera
        /\ readLen[r] = 151
        /\ Len(chatHistory[r]) = 150

(***************************************************************************)
(* C8.  The Context Window of a request contains no Turn appended by that  *)
(* request: its read has completed before its user Turn is appended.       *)
(***************************************************************************)
C8_WindowExcludesOwnTurn ==
    \A r \in Requests :
        /\ \A i \in 1..Len(history) :
              history[i].by = r => history[i].id \notin Range(chatIds[r]) /\ i > readLen[r]
        /\ (RowsBy(r, "user") # {} \/ QueuedBy(r, "user") # {})
              => pc[r] \notin {"idle", "awaitHistory", "historyReady"}

\* A request that found earlier turns in its window has its own user turn
\* committed, after the rows it read.
C8_Witness ==
    \E r \in Requests :
        /\ Len(chatIds[r]) >= 2
        /\ \E i \in RowsBy(r, "user") : i > readLen[r]
        /\ \A q \in Requests : q # r => pc[q] = "done"

(***************************************************************************)
(* C9.  Two concurrent requests are not serialized against the log: the    *)
(* SELECT of a request runs whatever the other request is doing, and its   *)
(* window holds every Turn committed before it (within the limit), so it   *)
(* can hold the other's user Turn while the other's assistant Turn is      *)
(* still to come.                                                          *)
(***************************************************************************)
C9_ReadsAreNotSerialized ==
    \A s \in Requests :
        /\ (pc[s] = "awaitHistory" /\ ~crashed) => ENABLED DbAll(s)
        /\ \A r \in Requests \ {s} : \A i \in RowsBy(r, "user") :
              (i <= readLen[s] /\ i > readLen[s] - LimitDefault)
                  => history[i].id \in Range(chatIds[s])

\* The race: s has read the user turn of r; r is still waiting for its
\* backend and has stored no assistant turn.
C9_Witness ==
    \E r \in Requests : \E s \in Requests \ {r} :
        /\ \E i \in RowsBy(r, "user") : history[i].id \in Range(chatIds[s])
        /\ pc[r] \in {"awaitFetch", "awaitJson", "awaitSend", "streaming"}
        /\ RowsBy(r, "assistant") = {} /\ QueuedBy(r, "assistant") = {}
        /\ pc[s] \in {"awaitFetch", "awaitSend"}

(***************************************************************************)
(* C10.  A request whose model identifier is not recognized (neither of    *)
(* the cloud family nor a model the local backend serves) fails fast: no   *)
(* backend is called with its content or image.                            *)
(***************************************************************************)
Recognized(model) ==
    \/ model \in {NullText, <<>>}
    \/ includes(model, Gemini)
    \/ model \in LocalModels

C10_UnrecognizedModelNotDispatched ==
    \A r \in Requests :
        (pc[r] # "idle" /\ ~Recognized(reqBody[r].model))
            => backendCall[r].backend = "none"

(***************************************************************************)
(* C11.  A /chat request is answered by the catch block (HTTP 500) only    *)
(* after its history was loaded and its user Turn was handed to the Store, *)
(* that is, only on a backend fault after dispatch; no fault before the    *)
(* user Turn is persisted ends in the 500 of the catch block.              *)
(***************************************************************************)
\* The request was ended by the catch block of lines 195-198.
Errored(r) == pc[r] = "done" /\ resStatus[r] = 500

C11_ErroredOnlyAfterDispatch ==
    \A r \in Requests :
        Errored(r) => UserSaveIssued(r) /\ backendFailed[r] /\ ~dbError[r]

(***************************************************************************)
(* C12.  As stated: for the batch variant the response value is relayed    *)
(* to the caller first and the assistant Turn is handed to the Store after *)
(* that relay.                                                             *)
(***************************************************************************)
\* Where in the calls of request r a call of that kind stands.
StepsOf(r, op, role) ==
    {i \in DOMAIN steps[r] : steps[r][i].op = op /\ steps[r][i].role = role}

Appended(r) ==
    LET calls == SelectSeq(steps[r], LAMBDA c : c.op = "saveToDB")
    IN  [i \in 1..Len(calls) |->
            [role |-> calls[i].role, content |-> calls[i].content,
             image |-> calls[i].image]]

\* The rows of request r in a table or queue, in its order.
TurnsBy(table, r) ==
    LET own == SelectSeq(table, LAMBDA row : row.by = r)
    IN  [i \in 1..Len(own) |->
            [role |-> own[i].role, content |-> own[i].content,
             image |-> own[i].image]]

IsPrefix(a, b) == Len(a) <= Len(b) /\ a = SubSeq(b, 1, Len(a))

UserTurn(r) ==
    [role |-> "user", content |-> lastIncoming(reqBody[r]).content,
     image |-> lastIncoming(reqBody[r]).image]

Failed(r) ==
    /\ pc[r] # "idle"
    /\ Malformed(reqBody[r]) \/ dbError[r] \/ backendFailed[r]

C13_TwoTurnsPerCompletedRequest ==
    \A r \in Requests :
        /\ (Answered(r) /\ ~Failed(r))
              => Appended(r) =
                    << UserTurn(r),
                       [role |-> "assistant", content |-> Concat(resBody[r]),
                        image |-> Null] >>
        /\ Failed(r) =>
              IF Malformed(reqBody[r]) THEN Appended(r) = <<>>
              ELSE Appended(r) \in {<<>>, <<UserTurn(r)>>}
        /\ IsPrefix(TurnsBy(history, r), Appended(r))
        /\ ~crashed => TurnsBy(history, r) \o TurnsBy(dbQueue, r) = Appended(r)
        /\ \A i \in RowsBy(r, "user") : \A j \in RowsBy(r, "assistant") :
              history[i].id < history[j].id

\* A completed request has both rows in the table, with a row of the other
\* request stored between them.
C13_Witness ==
    \E r \in Requests :
        /\ Answered(r) /\ ~Failed(r)
        /\ \E i \in RowsBy(r, "user") : \E j \in RowsBy(r, "assistant") :
              \E k \in 1..Len(history) : i < k /\ k < j /\ history[k].by # r

(***************************************************************************)
(* C14.  A /chat request whose messages field is missing or empty is       *)
(* answered with a client-error response (4xx): it is not left unanswered, *)
(* gets no 500, appends no Turn and calls no backend.                      *)
(***************************************************************************)
C14_MalformedBodyRejected ==
    \A r \in Requests :
        (pc[r] # "idle" /\ Malformed(reqBody[r]))
            => /\ resEnd[r] = "ended"
               /\ resStatus[r] \in 400..499
               /\ Appended(r) = <<>>
               /\ backendCall[r].backend = "none"

(***************************************************************************)
(* C15.  A Store fault during a /chat request, a failed history read or a  *)
(* failed append, ends that request with HTTP 500 and leaves the process   *)
(* running.                                                                *)
(***************************************************************************)
C15_StoreFaultAnswered500 ==
    \A r \in Requests :
        /\ (dbError[r] /\ Answered(r))
              => resStatus[r] = 500 /\ resEnd[r] = "ended"
        /\ stmtError[r]
              => resStatus[r] = 500 /\ resEnd[r] = "ended" /\ ~crashed

(***************************************************************************)
(* C16.  Whatever the cloud and the local listing source do (succeed,      *)
(* fail, reply malformed; the cloud key absent), GET /api/models answers   *)
(* 200 with the cloud entries followed by the local entries, a failed      *)
(* source contributing no entry; the handler never fails.                  *)
(***************************************************************************)
\* The entries a source contributes: those of its listing, none when it
\* was not asked, failed, or replied something the handler cannot read.
CloudContribution ==
    IF GOOGLE_API_KEY /\ cloudReply.kind = "listing" /\ ~FilterThrows(cloudReply.models)
    THEN GeminiModels(cloudReply.models)
    ELSE <<>>

LocalContribution ==
    IF localReply.kind = "listing" THEN OllamaModels(localReply.models) ELSE <<>>

C16_CatalogAlwaysAnswers ==
    /\ modelsStatus \in {0, 200}
    /\ modelsPc = "done"
          => /\ modelsStatus = 200
             /\ allModels = CloudContribution \o LocalContribution
             /\ localReply # NoReply
             /\ GOOGLE_API_KEY <=> cloudReply # NoReply
    /\ modelsPc \notin {"idle", "done"} => modelsStatus = 0 /\ ENABLED NextModels
    /\ \A i \in 1..Len(allModels) :
          \/ /\ SubSeq(allModels[i].name, 1, Len(CloudMark)) = CloudMark
             /\ \A j \in 1..i : SubSeq(allModels[j].name, 1, Len(CloudMark)) = CloudMark
          \/ SubSeq(allModels[i].name, 1, Len(LocalMark)) = LocalMark

\* The cloud listing held a tuned model and an entry without methods, the
\* local listing one model: the answer is the tuned model, then the local one.
C16_Witness ==
    /\ modelsPc = "done"
    /\ cloudReply = [kind |-> "listing", models |-> <<CloudTuned, CloudAqa>>]
    /\ localReply = [kind |-> "listing", models |-> <<[name |-> ModelLlama]>>]
    /\ allModels = << [id |-> <<"t">> \o Gemini, name |-> CloudMark \o <<"T">>],
                      [id |-> ModelLlama, name |-> LocalMark \o ModelLlama] >>

(***************************************************************************)
(* C17.  The Store is append-only under any interleaving of /chat          *)
(* requests: a step leaves every stored row as it is (id, role, content,   *)
(* image) and removes none, ids are unique and strictly increase in        *)
(* insertion order, and a read returns rows in insertion order.            *)
(***************************************************************************)
IdsIncrease(table) ==
    \A i, j \in 1..Len(table) : i < j => table[i].id < table[j].id

\* What request r has read is a run of stored rows, oldest first.
ReadInOrder(r) ==
    /\ Len(chatHistory[r]) = Len(chatIds[r])
    /\ \A i, j \in 1..Len(chatIds[r]) : i < j => chatIds[r][i] < chatIds[r][j]
    /\ \A i \in 1..Len(chatIds[r]) :
          \E k \in 1..Len(history) :
              /\ history[k].id = chatIds[r][i]
              /\ history[k].role = chatHistory[r][i].role
              /\ history[k].content = chatHistory[r][i].content
              /\ history[k].image = chatHistory[r][i].image

StoreInOrder == IdsIncrease(history) /\ \A r \in Requests : ReadInOrder(r)

C17_StoreAppendOnly ==
    [][ /\ IsPrefix(history, history')
        /\ StoreInOrder' ]_vars

\* Both requests have rows in the table, and one of them has read two or
\* more rows while the other was writing.
C17_Witness ==
    /\ Len(history) >= 3
    /\ \A r \in Requests : \E i \in 1..Len(history) : history[i].by = r
    /\ \E r \in Requests : Len(chatIds[r]) >= 2 /\ readLen[r] < Len(history)

(***************************************************************************)
(* C18.  The backend is chosen by the model identifier alone: an           *)
(* identifier containing the cloud family name, and an absent one (which   *)
(* becomes the default cloud identifier), take the streaming variant;      *)
(* every other identifier takes the batch variant; a request calls exactly *)
(* one of the two.  Absent is what model || default takes as missing:      *)
(* undefined, null or the empty string.                                    *)
(***************************************************************************)
Absent(model) == model \in {NullText, <<>>}

\* The backend calls request r has made.
Dispatches(r) ==
    StepsOf(r, "fetch", Null) \cup StepsOf(r, "sendMessageStream", Null)

C18_BackendByModelAlone ==
    \A r \in Requests :
        /\ Cardinality(Dispatches(r)) <= 1
        /\ UserSaveIssued(r) =>
              LET m == reqBody[r].model
                  cloud == Absent(m) \/ includes(m, Gemini)
              IN  /\ backendCall[r].backend = IF cloud THEN "gemini" ELSE "ollama"
                  /\ backendCall[r].model = IF Absent(m) THEN DefaultModel ELSE m
                  /\ Cardinality(Dispatches(r)) = 1
                  /\ StepsOf(r, "sendMessageStream", Null) # {} <=> cloud
                  /\ \A q \in Requests :
                        (UserSaveIssued(q) /\ reqBody[q].model = m)
                            => backendCall[q].backend = backendCall[r].backend

\* One request without a model and one naming a cloud model were both sent
\* to the streaming variant, with different text.
C18_Witness ==
    \E r, q \in Requests :
        /\ reqBody[r].model = NullText /\ backendCall[r].backend = "gemini"
        /\ reqBody[q].model = ModelGeminiPro /\ backendCall[q].backend = "gemini"
        /\ backendCall[r].content # backendCall[q].content

(***************************************************************************)
(* C19.  When the caller disconnects while a response is streamed, the     *)
(* request keeps consuming the backend stream and, once the stream is      *)
(* exhausted, still appends the assistant Turn holding the concatenation   *)
(* of all fragments, those never delivered included.                       *)
(***************************************************************************)
\* The first n fragments of a stream, joined.
RECURSIVE FirstFragments(_)
FirstFragments(n) == IF n = 0 THEN <<>> ELSE FirstFragments(n - 1) \o Fragment(n)

C19_DisconnectedStreamStillStored ==
    \A r \in Requests :
        closedAt[r] # -1 =>
            /\ closedAt[r] <= consumed[r]
            /\ fullAiResp[r] = FirstFragments(consumed[r])
            /\ (pc[r] = "streaming" /\ ~crashed) =>
                  /\ ENABLED StreamEnd(r)
                  /\ consumed[r] < MaxFragments => ENABLED StreamChunk(r)
            /\ (Answered(r) /\ ~backendFailed[r]) =>
                  /\ Len(Appended(r)) = 2
                  /\ Appended(r)[2] = [role |-> "assistant",
                                       content |-> FirstFragments(consumed[r]),
                                       image |-> Null]
                  /\ ~crashed =>
                        FirstFragments(consumed[r]) \in AssistantContents(r)

\* The caller left before the first fragment; two fragments were consumed
\* after that, and the stored assistant row holds both.
C19_Witness ==
    \E r \in Requests :
        /\ closedAt[r] = 0
        /\ consumed[r] = 2
        /\ Answered(r)
        /\ \E i \in RowsBy(r, "assistant") : history[i].content = TxtHel \o TxtLo

(***************************************************************************)
(* C20.  As stated: what is sent to either backend has the length and      *)
(* order of the Context Window plus the incoming Turn last, each Turn      *)
(* keeping its text and image; the streaming variant maps assistant to     *)
(* model and user to user, the batch variant keeps the roles.              *)
(***************************************************************************)
\* The role a stored role is sent as.
SentRole(backend, role) ==
    IF backend = "gemini" THEN (IF role = "assistant" THEN "model" ELSE "user")
    ELSE role

\* Request r sent its window in order, roles mapped, images kept, the text
\* of each turn as given by textOf, and its incoming message last; its own
\* user row is not among the rows of the window.
SentWindow(r, textOf(_, _)) ==
    LET sent == backendCall[r].messages
        w == chatHistory[r]
        b == backendCall[r].backend
        last == lastIncoming(reqBody[r])
    IN  /\ Len(sent) = Len(w) + 1
        /\ \A i \in 1..Len(w) :
              /\ sent[i].role = SentRole(b, w[i].role)
              /\ sent[i].text = textOf(b, w[i].content)
              /\ sent[i].image = w[i].image
        /\ sent[Len(sent)] =
              [role |-> "user", text |-> textOf(b, last.content), image |-> last.image]
        /\ \A i \in RowsBy(r, "user") : \A k \in 1..Len(chatIds[r]) :
              chatIds[r][k] # history[i].id

TextKept(backend, text) == text

C20_WindowSentUnchanged ==
    \A r \in Requests : UserSaveIssued(r) => SentWindow(r, TextKept)

(***************************************************************************)
(* C20, amended.  The same, except that the streaming variant sends one    *)
(* space in place of an empty or missing text (of a stored Turn or of the  *)
(* incoming one); the batch variant sends every text as it is.             *)
(***************************************************************************)
TextOrSpace(backend, text) ==
    IF backend = "gemini" /\ text \in {<<>>, NullText} THEN <<" ">> ELSE text

C20_WindowSentWithSpaceForEmpty ==
    \A r \in Requests : UserSaveIssued(r) => SentWindow(r, TextOrSpace)

\* A streaming request sent a window holding an assistant turn with empty
\* text (a stream that ended without a fragment) and a user turn.
C20_Witness ==
    \E r \in Requests :
        /\ backendCall[r].backend = "gemini"
        /\ Len(chatHistory[r]) >= 2
        /\ \E i \in 1..Len(chatHistory[r]) :
              /\ chatHistory[r][i].role = "assistant"
              /\ chatHistory[r][i].content = <<>>
              /\ backendCall[r].messages[i] =
                    [role |-> "model", text |-> <<" ">>, image |-> Null]

====
